---------------------------- MODULE Spec2Model ----------------------------
(***************************************************************************)
(* Model of gpu_pricecheck: the price normalizer (parse_price), the HTML   *)
(* extractor (parse_listings, both the CLI copy in main.rs and the library *)
(* copy in scraper.rs), the single-variant CLI pipeline (main), the web    *)
(* handlers (gpu_model_handler, home_handler) and the cheapest-each mode   *)
(* of the command line.                                                    *)
(*                                                                         *)
(* Strings are sequences of one-character strings.  Option<T> is a         *)
(* sequence of length 0 (None) or 1 (Some).                                *)
(***************************************************************************)
EXTENDS Integers, Sequences, FiniteSets, TLC

VARIABLES
    price_str,      \* harness: the argument handed to parse_price
    price_out,      \* harness: <<"pending">> or <<"ret", Option<f64>>>
    x_html,         \* harness: the document handed to both parse_listings
    x_scraper,      \* harness: None or Some(result of scraper::parse_listings)
    x_main,         \* harness: None or Some(result of main.rs parse_listings)
    args,           \* main: the parsed command line
    pc,             \* main: the statement main is at ("off": not running)
    html,           \* main: None, or Some(result of fetch_html)
    listings,       \* main: the listings vector
    ret,            \* main: None, or Some(result main returned)
    printed,        \* main: None, or Some(listings handed to print_table)
    w_pc,           \* server: "off", "idle", "model" (gpu_model_handler is
                    \* awaiting fetch_and_parse), "home" (home_handler is
                    \* awaiting join_all) or "responded"
    w_model,        \* server: None, or Some(model) of the /gpu/:model request
    w_fetch,        \* server: per model, None or Some(what fetch_html returned)
    w_out,          \* server: per model, None or Some(output of its future)
    w_order,        \* server: the models in the order their futures completed
    w_resp,         \* server: None, or Some(<<status code, body>>)
    ce_pc,          \* cheapest-each: "off", "tasks" (the per-variant tasks
                    \* are running) or "done"
    ce_all,         \* cheapest-each: the show-all switch
    ce_fetch,       \* cheapest-each: per model, None or Some(what the fetch
                    \* returned)
    ce_out,         \* cheapest-each: per model, None or Some(result of its
                    \* task)
    ce_result       \* cheapest-each: None, or Some(the final sequence)

None == <<>>
Some(x) == <<x>>
IsSome(o) == Len(o) = 1
Unwrap(o) == o[1]

(***************************************************************************)
(* Characters.                                                             *)
(***************************************************************************)
\* A non-ASCII decimal digit (ARABIC-INDIC DIGIT THREE), written by its code
\* point: one character of the string.  The regex crate's \d is Unicode-aware
\* and matches it; f64::from_str accepts ASCII digits only.
ArabicThree == "U+0663"

AsciiDigits == {"0", "1", "2", "3", "4", "5", "6", "7", "8", "9"}

IsAsciiDigit(c) == c \in AsciiDigits

\* \d of the regex crate (Unicode decimal digit)
IsReDigit(c) == c \in AsciiDigits \cup {ArabicThree}

DigitVal(c) ==
    CASE c = "0" -> 0 [] c = "1" -> 1 [] c = "2" -> 2 [] c = "3" -> 3
      [] c = "4" -> 4 [] c = "5" -> 5 [] c = "6" -> 6 [] c = "7" -> 7
      [] c = "8" -> 8 [] c = "9" -> 9

(***************************************************************************)
(* f64 values.  A finite non-negative f64 read from a short decimal string *)
(* is kept as the exact decimal m * 10^(-e), normalised so that equal      *)
(* numbers are equal records (short decimals map to distinct f64 values).  *)
(***************************************************************************)
RECURSIVE Pow10(_)
Pow10(n) == IF n = 0 THEN 1 ELSE 10 * Pow10(n - 1)

RECURSIVE Normalise(_, _)
Normalise(m, e) ==
    IF e > 0 /\ m % 10 = 0 THEN Normalise(m \div 10, e - 1)
    ELSE [m |-> m, e |-> e]

RECURSIVE DigitsValue(_)
DigitsValue(s) ==
    IF s = <<>> THEN 0
    ELSE 10 * DigitsValue(SubSeq(s, 1, Len(s) - 1)) + DigitVal(s[Len(s)])

\* str::parse::<f64>() on strings without sign or exponent: Digit* ['.' Digit*]
\* with at least one digit is Ok, anything else is Err (.ok() gives None).
ParseF64(s) ==
    LET dots == {i \in 1..Len(s) : s[i] = "."}
        digs == SelectSeq(s, IsAsciiDigit)
    IN  IF /\ \A i \in 1..Len(s) : IsAsciiDigit(s[i]) \/ s[i] = "."
           /\ Cardinality(dots) <= 1
           /\ Len(digs) >= 1
        THEN LET frac == IF dots = {} THEN 0
                         ELSE Len(s) - (CHOOSE i \in dots : TRUE)
             IN  Some(Normalise(DigitsValue(digs), frac))
        ELSE None

(***************************************************************************)
(* PRICE_RE = [\d,]+\.\d{2} and parse_price.                               *)
(***************************************************************************)
IsPriceReHead(c) == IsReDigit(c) \/ c = ","

\* the positions d of the '.' of a match of PRICE_RE that starts at p
PriceReDots(s, p) ==
    {d \in (p + 1)..(Len(s) - 2) :
        /\ \A i \in p..(d - 1) : IsPriceReHead(s[i])
        /\ s[d] = "."
        /\ IsReDigit(s[d + 1])
        /\ IsReDigit(s[d + 2])}

SetMin(S) == CHOOSE x \in S : \A y \in S : x <= y
SetMax(S) == CHOOSE x \in S : \A y \in S : x >= y

\* Regex::find: the leftmost match, its + greedy; None when nothing matches
PriceReFind(s) ==
    LET starts == {p \in 1..Len(s) : PriceReDots(s, p) # {}}
    IN  IF starts = {} THEN None
        ELSE LET p == SetMin(starts)
                 d == SetMax(PriceReDots(s, p))
             IN  Some(SubSeq(s, p, d + 2))

IsNotComma(c) == c # ","

\* mat.as_str().replace(',', "")
StripCommas(s) == SelectSeq(s, IsNotComma)

parse_price(s) ==
    LET mat == PriceReFind(s)
    IN  IF IsSome(mat) THEN ParseF64(StripCommas(Unwrap(mat))) ELSE None

(***************************************************************************)
(* Strings: byte order, trimming, searching, lower-casing.                 *)
(***************************************************************************)
UpperLetters ==
    <<"A", "B", "C", "D", "E", "F", "G", "H", "I", "J", "K", "L", "M",
      "N", "O", "P", "Q", "R", "S", "T", "U", "V", "W", "X", "Y", "Z">>

LowerLetters ==
    <<"a", "b", "c", "d", "e", "f", "g", "h", "i", "j", "k", "l", "m",
      "n", "o", "p", "q", "r", "s", "t", "u", "v", "w", "x", "y", "z">>

\* the characters the model's strings use, in ascending byte (UTF-8) order
Chars ==
    <<" ", "$", ",", "-", ".", "/",
      "0", "1", "2", "3", "4", "5", "6", "7", "8", "9", ":">>
    \o UpperLetters \o LowerLetters \o <<ArabicThree>>

CharCode(c) == CHOOSE i \in 1..Len(Chars) : Chars[i] = c

IsWhitespace(c) == c = " "

RECURSIVE TrimStart(_)
TrimStart(s) ==
    IF s # <<>> /\ IsWhitespace(Head(s)) THEN TrimStart(Tail(s)) ELSE s

RECURSIVE TrimEnd(_)
TrimEnd(s) ==
    IF s # <<>> /\ IsWhitespace(s[Len(s)])
    THEN TrimEnd(SubSeq(s, 1, Len(s) - 1))
    ELSE s

\* str::trim
Trim(s) == TrimEnd(TrimStart(s))

\* str::contains
Contains(s, sub) ==
    \E i \in 0..(Len(s) - Len(sub)) : SubSeq(s, i + 1, i + Len(sub)) = sub

\* char::to_lowercase on the model's characters
LowerChar(c) ==
    IF \E i \in 1..Len(UpperLetters) : UpperLetters[i] = c
    THEN LowerLetters[CHOOSE i \in 1..Len(UpperLetters) : UpperLetters[i] = c]
    ELSE c

\* str::to_lowercase
to_lowercase(s) == [i \in 1..Len(s) |-> LowerChar(s[i])]

(***************************************************************************)
(* Result<T>.                                                              *)
(***************************************************************************)
Ok(v) == <<"Ok", v>>
Err(e) == <<"Err", e>>
IsOk(r) == r[1] = "Ok"
IsErr(r) == r[1] = "Err"

TransportError == "TransportError"
StructureError == "StructureError"

(***************************************************************************)
(* The parsed document, as the selectors of parse_listings see it.         *)
(*   html  = [table : BOOLEAN, rows : Seq(row)]                            *)
(*           table: some element matches '#data > table.table';            *)
(*           rows : the 'tbody > tr' elements of the first such table      *)
(*   row   = Seq(cell), the 'td' elements of the row                       *)
(*   cell  = [nodes : Seq(node), title : Option<Str>]                      *)
(*   node  = [a : BOOLEAN, text : Str, href : Option<Str>]                 *)
(*           a child of the cell in document order: a text node, or an     *)
(*           'a' element with its own text and href attribute              *)
(***************************************************************************)
TextNode(s) == [a |-> FALSE, text |-> s, href |-> None]
Anchor(s, href) == [a |-> TRUE, text |-> s, href |-> href]

IsAnchor(n) == n.a

\* element.select(&link_selector).next()
FirstLink(cell) ==
    LET links == SelectSeq(cell.nodes, IsAnchor)
    IN  IF links = <<>> THEN None ELSE Some(links[1])

RECURSIVE NodesText(_)
NodesText(nodes) ==
    IF nodes = <<>> THEN <<>>
    ELSE Head(nodes).text \o NodesText(Tail(nodes))

\* element.text().collect::<String>(): all text below the element
CellText(cell) == NodesText(cell.nodes)

\* attr(name).unwrap_or("")
AttrOrEmpty(attr) == IF IsSome(attr) THEN Unwrap(attr) ELSE <<>>

Ebay == <<"E", "b", "a", "y">>
NA == <<"N", "/", "A">>
Dash == <<"-">>

GpuListing(name, status, price, price_numeric, last_available, link) ==
    [name |-> name, status |-> status, price |-> price,
     price_numeric |-> price_numeric, last_available |-> last_available,
     link |-> link]

\* EbayRow looking for the marker in every link of the first cell
EbayRowAnyLink(cells) ==
    LET links == SelectSeq(cells[1].nodes, IsAnchor)
        hits == {i \in 1..Len(links) : Contains(Trim(links[i].text), Ebay)}
    IN  IF hits # {}
        THEN LET link_element == links[SetMin(hits)]
             IN  Some(GpuListing(Trim(link_element.text),
                                 Trim(CellText(cells[2])),
                                 Dash, None, Dash,
                                 AttrOrEmpty(link_element.href)))
        ELSE None

\* the two-cell special case: Some(listing) when the row is pushed by it
EbayRow(cells) ==
    LET link_element == FirstLink(cells[1])
    IN  IF IsSome(link_element)
        THEN LET name_text == Trim(Unwrap(link_element).text)
             IN  IF Contains(name_text, Ebay)
                 THEN Some(GpuListing(name_text,
                                      Trim(CellText(cells[2])),
                                      Dash, None, Dash,
                                      AttrOrEmpty(Unwrap(link_element).href)))
                 ELSE None
        ELSE None

\* (name, link) of a standard row
NameAndLink(cell) ==
    LET link_el == FirstLink(cell)
    IN  IF IsSome(link_el)
        THEN <<Trim(Unwrap(link_el).text), AttrOrEmpty(Unwrap(link_el).href)>>
        ELSE <<NA, <<>>>>

\* status of a standard row
StatusOf(cell) ==
    LET link_el == FirstLink(cell)
    IN  Trim(IF IsSome(link_el) THEN Unwrap(link_el).text ELSE CellText(cell))

\* last_available of a standard row, scraper.rs
LastAvailable(cell) ==
    LET main_text == Trim(CellText(cell))
        title == IF IsSome(cell.title) THEN Some(Trim(Unwrap(cell.title)))
                 ELSE None
    IN  IF IsSome(title) /\ Unwrap(title) # <<>> THEN Unwrap(title)
        ELSE main_text

\* last_available of a standard row, main.rs
MainLastAvailable(cell) ==
    LET main_text == Trim(CellText(cell))
    IN  IF IsSome(cell.title) THEN Unwrap(cell.title) ELSE main_text

\* StandardRow without the check of the name
StandardRowAnyName(cells, last_available) ==
    LET name == NameAndLink(cells[1])[1]
        link == NameAndLink(cells[1])[2]
        status == StatusOf(cells[2])
        price == Trim(CellText(cells[3]))
        price_numeric == parse_price(price)
    IN  Some(GpuListing(name, status, price, price_numeric,
                        last_available, link))

\* StandardRow with the numeric price parsed from the wrong cell
StandardRowWrongCell(cells, last_available) ==
    LET name == NameAndLink(cells[1])[1]
        link == NameAndLink(cells[1])[2]
        status == StatusOf(cells[2])
        price == Trim(CellText(cells[3]))
        price_numeric == parse_price(Trim(CellText(cells[4])))
    IN  IF name = NA \/ name = <<>> THEN None
        ELSE Some(GpuListing(name, status, price, price_numeric,
                             last_available, link))

\* the standard row parsing of a row of four cells or more
StandardRow(cells, last_available) ==
    LET name == NameAndLink(cells[1])[1]
        link == NameAndLink(cells[1])[2]
        status == StatusOf(cells[2])
        price == Trim(CellText(cells[3]))
        price_numeric == parse_price(price)
    IN  IF name = NA \/ name = <<>> THEN None
        ELSE Some(GpuListing(name, status, price, price_numeric,
                             last_available, link))

\* one iteration of the row loop of scraper.rs: the listings it pushes
RowListings(cells) ==
    IF Len(cells) = 2 /\ IsSome(EbayRow(cells)) THEN EbayRow(cells)
    ELSE IF Len(cells) < 4 THEN None
    ELSE StandardRow(cells, LastAvailable(cells[4]))

\* one iteration of the row loop of main.rs
MainRowListings(cells) ==
    IF Len(cells) = 2 /\ IsSome(EbayRow(cells)) THEN EbayRow(cells)
    ELSE IF Len(cells) < 4 THEN None
    ELSE StandardRow(cells, MainLastAvailable(cells[4]))

\* RowLoop leaving the loop at the first row that yields no listing
RECURSIVE RowLoopUntilSkip(_)
RowLoopUntilSkip(rows) ==
    IF rows = <<>> \/ RowListings(Head(rows)) = None THEN <<>>
    ELSE RowListings(Head(rows)) \o RowLoopUntilSkip(Tail(rows))

\* `for row in table.select(&row_selector)`, scraper.rs
RECURSIVE RowLoop(_)
RowLoop(rows) ==
    IF rows = <<>> THEN <<>>
    ELSE RowListings(Head(rows)) \o RowLoop(Tail(rows))

RECURSIVE MainRowLoop(_)
MainRowLoop(rows) ==
    IF rows = <<>> THEN <<>>
    ELSE MainRowListings(Head(rows)) \o MainRowLoop(Tail(rows))

\* parse_listings returning an empty vector when the table is missing
parse_listings_or_empty(html_content) ==
    IF html_content.table THEN Ok(RowLoop(html_content.rows)) ELSE Ok(<<>>)

\* scraper::parse_listings
parse_listings(html_content) ==
    IF html_content.table THEN Ok(RowLoop(html_content.rows))
    ELSE Err(StructureError)

\* parse_listings of main.rs
main_parse_listings(html_content) ==
    IF html_content.table THEN Ok(MainRowLoop(html_content.rows))
    ELSE Err(StructureError)

(***************************************************************************)
(* Sample markup.                                                          *)
(***************************************************************************)
InStock == <<"I", "n", " ", "S", "t", "o", "c", "k">>
OutOfStock == <<"O", "u", "t", " ", "o", "f", " ", "S", "t", "o", "c", "k">>
OUT_OF_STOCK == <<"O", "U", "T", " ", "O", "F", " ", "S", "T", "O", "C", "K">>
NotTracking ==
    <<"N", "o", "t", " ", "T", "r", "a", "c", "k", "i", "n", "g">>
not_tracking ==
    <<"n", "o", "t", " ", "t", "r", "a", "c", "k", "i", "n", "g">>
Preorder == <<"P", "r", "e", "o", "r", "d", "e", "r">>
StockAvailable ==
    <<"S", "t", "o", "c", "k", " ", "A", "v", "a", "i", "l", "a", "b", "l", "e">>
OutOfStocks == OutOfStock \o <<"s">>

Price100 == <<"$", "1", "0", "0", ".", "0", "0">>
Price50 == <<"$", "5", "0", ".", "0", "0">>
Price1234 == <<"$", "1", ",", "2", "3", "4", ".", "5", "6">>
PriceCommaOnly == <<",", ".", "5", "0">>
PriceNoCents == <<"$", "7", "5">>

Sp == <<" ">>

TextCell(s) == [nodes |-> <<TextNode(s)>>, title |-> None]
LinkCell(s, href) == [nodes |-> <<Anchor(s, href)>>, title |-> None]
TitledCell(s, title) == [nodes |-> <<TextNode(s)>>, title |-> Some(title)]
TwoLinkCell(s1, s2, href) ==
    [nodes |-> <<Anchor(s1, href), Anchor(s2, href)>>, title |-> None]
\* a status cell: whitespace, then the status inside a link
LinkedStatusCell(s) ==
    [nodes |-> <<TextNode(Sp), Anchor(s, None)>>, title |-> None]

HrefA == Some(<<"/", "a">>)
HrefB == Some(<<"/", "b">>)
HrefE == Some(<<"/", "e">>)

Day1 == <<"1", "d">>
Day2 == <<"2", "d">>
Full1 == <<"1", "d", " ", "2", "h">>

\* standard rows
RowA == <<LinkCell(<<"A">>, HrefA), TextCell(InStock), TextCell(Price100),
          TextCell(Day1)>>
RowB == <<LinkCell(<<"B">>, HrefB), TextCell(OutOfStock), TextCell(Price50),
          TitledCell(Day1, Full1)>>
RowC == <<LinkCell(<<"C">>, None), TextCell(InStock), TextCell(Dash),
          TitledCell(Day2, <<>>)>>
RowD == <<LinkCell(<<" ", "D", " ">>, HrefA), LinkedStatusCell(Preorder),
          TextCell(Sp \o Price1234 \o Sp), TitledCell(Day2, Sp \o Full1 \o Sp)>>
RowE == <<LinkCell(<<"E">>, HrefB), TextCell(not_tracking),
          TextCell(PriceCommaOnly), TextCell(Day1)>>
RowF == <<LinkCell(<<"F">>, HrefA), TextCell(OUT_OF_STOCK),
          TextCell(Price100), TextCell(Day2), TextCell(<<"x">>)>>
RowG == <<LinkCell(<<"G">>, HrefA), TextCell(OutOfStocks),
          TextCell(PriceNoCents), TextCell(Day2)>>
RowN == <<LinkCell(<<"N">>, HrefB), TextCell(NotTracking \o Sp),
          TextCell(Price100), TextCell(Day2)>>
RowH == <<LinkCell(Ebay, HrefE), TextCell(NotTracking), TextCell(Price50),
          TextCell(Day1)>>
\* marketplace rows
RowEbay == <<LinkCell(Sp \o Ebay \o Sp, HrefE),
             TextCell(Sp \o StockAvailable \o Sp)>>
RowOnEbay == <<LinkCell(<<"X", " ">> \o Ebay, None), TextCell(OutOfStock)>>
\* rows of neither shape, or without a usable name
RowTwoPlain == <<LinkCell(<<"X">>, HrefA), TextCell(InStock)>>
RowTwoNoLink == <<TextCell(Ebay), TextCell(InStock)>>
RowTwoLowerEbay == <<LinkCell(<<"e", "b", "a", "y">>, HrefE), TextCell(InStock)>>
RowTwoSecondLinkEbay == <<TwoLinkCell(<<"X">>, Ebay, HrefE), TextCell(InStock)>>
RowNoCells == <<>>
RowOneCell == <<LinkCell(Ebay, HrefE)>>
RowThreeCells == <<LinkCell(<<"A">>, HrefA), TextCell(InStock),
                   TextCell(Price100)>>
RowNoLink == <<TextCell(<<"A">>), TextCell(InStock), TextCell(Price100),
               TextCell(Day1)>>
RowBlankName == <<LinkCell(<<" ", " ">>, HrefA), TextCell(InStock),
                  TextCell(Price100), TextCell(Day1)>>
RowNAName == <<LinkCell(NA, HrefA), TextCell(InStock), TextCell(Price100),
               TextCell(Day1)>>
RowSecondLinkName == <<TwoLinkCell(<<>>, <<"A">>, HrefA), TextCell(InStock),
                       TextCell(Price100), TextCell(Day1)>>

RowSamples ==
    {RowA, RowB, RowC, RowD, RowE, RowF, RowG, RowH, RowN, RowEbay, RowOnEbay,
     RowTwoPlain, RowTwoNoLink, RowTwoLowerEbay, RowTwoSecondLinkEbay,
     RowNoCells, RowOneCell, RowThreeCells, RowNoLink, RowBlankName,
     RowNAName, RowSecondLinkName}

RECURSIVE SeqsUpTo(_, _)
SeqsUpTo(A, n) ==
    IF n = 0 THEN {<<>>}
    ELSE LET shorter == SeqsUpTo(A, n - 1)
         IN  shorter \cup {Append(s, c) : s \in shorter, c \in A}

NoTable == [table |-> FALSE, rows |-> <<>>]
Table(rows) == [table |-> TRUE, rows |-> rows]

\* the documents with at most n rows drawn from R, and the one without a table
Documents(R, n) == {NoTable} \cup {Table(rows) : rows \in SeqsUpTo(R, n)}

(***************************************************************************)
(* Ordering (std::cmp::Ordering as -1, 0, 1) and the comparator of main.   *)
(***************************************************************************)
Less == 0 - 1
Equal == 0
Greater == 1

IntCmp(a, b) == IF a < b THEN Less ELSE IF a > b THEN Greater ELSE Equal

\* str::cmp: lexicographic on bytes
RECURSIVE StrCmp(_, _)
StrCmp(a, b) ==
    IF a = <<>> /\ b = <<>> THEN Equal
    ELSE IF a = <<>> THEN Less
    ELSE IF b = <<>> THEN Greater
    ELSE IF Head(a) # Head(b) THEN IntCmp(CharCode(Head(a)), CharCode(Head(b)))
    ELSE StrCmp(Tail(a), Tail(b))

\* f64::partial_cmp(..).unwrap_or(Equal) on the values ParseF64 returns
F64Cmp(x, y) == IntCmp(x.m * Pow10(y.e), y.m * Pow10(x.e))

\* Ordering::reverse
Reverse(o) == 0 - o

SortColumns == {"Name", "Status", "Price", "LastAvailable", "Link"}

\* PriceOrdering with a missing numeric price ordered first
PriceOrderingNoneFirst(a, b) ==
    IF IsSome(a.price_numeric) /\ IsSome(b.price_numeric)
    THEN F64Cmp(Unwrap(a.price_numeric), Unwrap(b.price_numeric))
    ELSE IF IsSome(a.price_numeric) THEN Greater
    ELSE IF IsSome(b.price_numeric) THEN Less
    ELSE StrCmp(a.price, b.price)

\* the arms of `match (a.price_numeric, b.price_numeric)`
PriceOrdering(a, b) ==
    IF IsSome(a.price_numeric) /\ IsSome(b.price_numeric)
    THEN F64Cmp(Unwrap(a.price_numeric), Unwrap(b.price_numeric))
    ELSE IF IsSome(a.price_numeric) THEN Less
    ELSE IF IsSome(b.price_numeric) THEN Greater
    ELSE StrCmp(a.price, b.price)

\* Compare without the reversal between a listing that has a numeric price
\* and one that lacks it
CompareNoneLast(a, b, sort_by, desc) ==
    LET ordering ==
            CASE sort_by = "Name" -> StrCmp(a.name, b.name)
              [] sort_by = "Status" -> StrCmp(a.status, b.status)
              [] sort_by = "Price" -> PriceOrdering(a, b)
              [] sort_by = "LastAvailable" ->
                     StrCmp(a.last_available, b.last_available)
              [] sort_by = "Link" -> StrCmp(a.link, b.link)
    IN  IF desc /\ ~(sort_by = "Price"
                     /\ IsSome(a.price_numeric) # IsSome(b.price_numeric))
        THEN Reverse(ordering) ELSE ordering

\* the closure handed to sort_by
Compare(a, b, sort_by, desc) ==
    LET ordering ==
            CASE sort_by = "Name" -> StrCmp(a.name, b.name)
              [] sort_by = "Status" -> StrCmp(a.status, b.status)
              [] sort_by = "Price" -> PriceOrdering(a, b)
              [] sort_by = "LastAvailable" ->
                     StrCmp(a.last_available, b.last_available)
              [] sort_by = "Link" -> StrCmp(a.link, b.link)
    IN  IF desc THEN Reverse(ordering) ELSE ordering

\* InsertSorted putting x before the elements that compare equal to it
RECURSIVE InsertSortedUnstable(_, _, _, _)
InsertSortedUnstable(v, x, sort_by, desc) ==
    IF v = <<>> THEN <<x>>
    ELSE IF Compare(v[Len(v)], x, sort_by, desc) # Less
    THEN Append(InsertSortedUnstable(SubSeq(v, 1, Len(v) - 1), x, sort_by,
                                     desc),
                v[Len(v)])
    ELSE Append(v, x)

\* slice::sort_by is a stable sort: v sorted, x put after the elements that
\* do not compare greater than it
RECURSIVE InsertSorted(_, _, _, _)
InsertSorted(v, x, sort_by, desc) ==
    IF v = <<>> THEN <<x>>
    ELSE IF Compare(v[Len(v)], x, sort_by, desc) = Greater
    THEN Append(InsertSorted(SubSeq(v, 1, Len(v) - 1), x, sort_by, desc),
                v[Len(v)])
    ELSE Append(v, x)

RECURSIVE SortBy(_, _, _)
SortBy(v, sort_by, desc) ==
    IF v = <<>> THEN <<>>
    ELSE InsertSorted(SortBy(SubSeq(v, 1, Len(v) - 1), sort_by, desc),
                      v[Len(v)], sort_by, desc)

(***************************************************************************)
(* main of main.rs: fetch, parse, filter, sort, limit, print.              *)
(***************************************************************************)
OutOfStockLower == to_lowercase(OutOfStock)
NotTrackingLower == to_lowercase(NotTracking)

\* IsShown without the lower-casing of the status
IsShownCaseSensitive(item) ==
    LET lower_status == item.status
    IN  lower_status # OutOfStockLower /\ lower_status # NotTrackingLower

\* the closure handed to retain
IsShown(item) ==
    LET lower_status == to_lowercase(item.status)
    IN  lower_status # OutOfStockLower /\ lower_status # NotTrackingLower

\* Vec::retain
Retain(v) == SelectSeq(v, IsShown)

\* Vec::truncate under `if limit < listings.len()`
Limit(v, limit) ==
    IF IsSome(limit) /\ Unwrap(limit) < Len(v)
    THEN SubSeq(v, 1, Unwrap(limit))
    ELSE v

\* AfterTry with the error dropped
AfterTryIgnored(r, next) == next

\* the statement main goes to after `expr?`: out of main on Err
AfterTry(r, next) == IF IsErr(r) THEN "exit" ELSE next

MaxRows == 3
MaxLimit == 1

CliRows == {RowA, RowB, RowC, RowN}

\* what fetch_html can return: a transport failure, or the page's markup
FetchResults == {Err(TransportError)} \cup
                {Ok(d) : d \in Documents(CliRows, MaxRows)}

ArgsSet ==
    [all : BOOLEAN, sort_by : SortColumns, desc : BOOLEAN,
     limit : {None} \cup {Some(n) : n \in 0..MaxLimit}]

cliVars == <<args, pc, html, listings, ret, printed>>

\* let html = fetch_html(&url)?;
MainFetch ==
    /\ pc = "fetch"
    /\ \E r \in FetchResults :
        /\ html' = Some(r)
        /\ pc' = AfterTry(r, "parse")
        /\ ret' = IF IsErr(r) THEN Some(r) ELSE ret
    /\ UNCHANGED <<args, listings, printed>>

\* let mut listings = parse_listings(&html)?;
MainParse ==
    /\ pc = "parse"
    /\ LET r == main_parse_listings(Unwrap(html)[2])
       IN  /\ pc' = AfterTry(r, "filter")
           /\ ret' = IF IsErr(r) THEN Some(r) ELSE ret
           /\ listings' = IF IsOk(r) THEN r[2] ELSE listings
    /\ UNCHANGED <<args, html, printed>>

\* if !args.all { listings.retain(..) }
MainFilter ==
    /\ pc = "filter"
    /\ listings' = IF args.all THEN listings ELSE Retain(listings)
    /\ pc' = "sort"
    /\ UNCHANGED <<args, html, ret, printed>>

\* if !listings.is_empty() { listings.sort_by(..) }
MainSort ==
    /\ pc = "sort"
    /\ listings' = IF listings # <<>>
                    THEN SortBy(listings, args.sort_by, args.desc)
                    ELSE listings
    /\ pc' = "limit"
    /\ UNCHANGED <<args, html, ret, printed>>

\* if let Some(limit) = args.limit { .. listings.truncate(limit) }
MainLimit ==
    /\ pc = "limit"
    /\ listings' = Limit(listings, args.limit)
    /\ pc' = "print"
    /\ UNCHANGED <<args, html, ret, printed>>

\* print_table(&listings, ..); Ok(())
MainPrint ==
    /\ pc = "print"
    /\ printed' = Some(listings)
    /\ ret' = Some(Ok(<<>>))
    /\ pc' = "exit"
    /\ UNCHANGED <<args, html, listings>>

(***************************************************************************)
(* cli.rs: GpuModel.                                                       *)
(***************************************************************************)
\* GpuModel::value_variants(): the variants in declaration order
Models == <<"Rtx5090", "Rtx5080", "Rtx5070Ti", "Rtx5070">>

ModelSet == {Models[i] : i \in 1..Len(Models)}

\* impl Display for GpuModel: the URL part
ModelUrlPart(model) ==
    CASE model = "Rtx5090" -> <<"r", "t", "x", "5", "0", "9", "0", "/">>
      [] model = "Rtx5080" -> <<"r", "t", "x", "5", "0", "8", "0", "/">>
      [] model = "Rtx5070Ti" ->
             <<"r", "t", "x", "5", "0", "7", "0", "t", "i", "/">>
      [] model = "Rtx5070" -> <<"r", "t", "x", "5", "0", "7", "0", "/">>

\* str::trim_end_matches('/')
RECURSIVE TrimEndSlashes(_)
TrimEndSlashes(s) ==
    IF s # <<>> /\ s[Len(s)] = "/"
    THEN TrimEndSlashes(SubSeq(s, 1, Len(s) - 1))
    ELSE s

\* impl FromStr for GpuModel
GpuModelFromStr(s) ==
    LET key == TrimEndSlashes(to_lowercase(s))
        hits == {m \in ModelSet :
                    \/ key = TrimEndSlashes(ModelUrlPart(m))
                    \/ <<"r", "t", "x">> \o key = TrimEndSlashes(ModelUrlPart(m))}
    IN  IF hits = {} THEN Err("ParseGpuModelError")
        ELSE Ok(CHOOSE m \in hits : TRUE)

(***************************************************************************)
(* web.rs: the handlers of the server.  Handlers of different requests     *)
(* share no state (AppState is empty); the model serves one request at a   *)
(* time.                                                                   *)
(***************************************************************************)
\* a standard row of the page of `model`: its link is under the model's URL
WebRow(model, name, status, price) ==
    <<LinkCell(name, Some(ModelUrlPart(model) \o name)), TextCell(status),
      TextCell(price), TextCell(Day1)>>

\* the marketplace row of the page of `model`
WebEbayRow(model) ==
    <<LinkCell(Ebay, Some(ModelUrlPart(model) \o Ebay)),
      TextCell(StockAvailable)>>

\* what the site can serve at the URL of `model`
WebPages(model) ==
    {NoTable,
     Table(<<WebRow(model, <<"A">>, InStock, Price100)>>),
     Table(<<WebRow(model, <<"P">>, Preorder, Price50),
             WebEbayRow(model),
             WebRow(model, <<"A">>, InStock, Price100)>>)}

\* what web::fetch_html can return for the URL of `model`
WebFetchResults(model) ==
    {Err(TransportError)} \cup {Ok(d) : d \in WebPages(model)}

\* fetch_and_parse, given what fetch_html(url).await returned
fetch_and_parse(fetched) ==
    IF IsErr(fetched) THEN fetched ELSE parse_listings(fetched[2])

\* template.render(): writing the listings into a String does not fail
Render(template_listings) == Ok(template_listings)

\* the body of one future of fetch_futures, after fetch_and_parse returned r
FetchFuture(model, r) ==
    IF IsOk(r) THEN Ok(<<model, r[2]>>) ELSE Ok(<<model, <<>>>>)

\* the outputs in the order in which the futures completed
JoinAllAsCompleted == [i \in 1..Len(w_order) |-> Unwrap(w_out[w_order[i]])]

\* join_all(fetch_futures).await: the outputs in the order of the futures
JoinAll == [i \in 1..Len(Models) |-> Unwrap(w_out[Models[i]])]

RECURSIVE FlatMapListings(_)
FlatMapListings(oks) ==
    IF oks = <<>> THEN <<>>
    ELSE Head(oks)[2][2] \o FlatMapListings(Tail(oks))

RECURSIVE TakeWhileNonEmpty(_)
TakeWhileNonEmpty(oks) ==
    IF oks = <<>> \/ Head(oks)[2][2] = <<>> THEN <<>>
    ELSE <<Head(oks)>> \o TakeWhileNonEmpty(Tail(oks))

\* CollectListings stopping at the first model without listings
CollectListingsUntilEmpty(results) ==
    FlatMapListings(TakeWhileNonEmpty(SelectSeq(results, IsOk)))

\* results.into_iter().filter_map(|res| res.ok()).flat_map(..).collect()
CollectListings(results) == FlatMapListings(SelectSeq(results, IsOk))

ModelStrSamples ==
    {<<"5", "0", "9", "0">>,
     <<"R", "T", "X", "5", "0", "8", "0", "/">>,
     <<"5", "0", "7", "0", "t", "i">>,
     <<"r", "t", "x", "5", "0", "7", "0", "/", "/">>,
     <<"4", "0", "9", "0">>,
     <<>>}

NoneFetched == [m \in ModelSet |-> None]

webVars == <<w_pc, w_model, w_fetch, w_out, w_order, w_resp>>

\* gpu_model_handler up to fetch_and_parse(&model_url).await
ModelRequest ==
    /\ w_pc = "idle"
    /\ \E model_str \in ModelStrSamples :
        LET model == GpuModelFromStr(model_str)
        IN  IF IsErr(model)
            THEN /\ w_resp' = Some(<<500, model>>)
                 /\ w_pc' = "responded"
                 /\ UNCHANGED w_model
            ELSE /\ w_model' = Some(model[2])
                 /\ w_pc' = "model"
                 /\ UNCHANGED w_resp
    /\ UNCHANGED <<w_fetch, w_out, w_order>>

\* gpu_model_handler from the completion of fetch_and_parse to its return
ModelFetched ==
    /\ w_pc = "model"
    /\ \E fetched \in WebFetchResults(Unwrap(w_model)) :
        LET r == fetch_and_parse(fetched)
        IN  /\ w_fetch' = [w_fetch EXCEPT ![Unwrap(w_model)] = Some(fetched)]
            /\ w_resp' = IF IsErr(r) THEN Some(<<500, r>>)
                         ELSE Some(<<200, Render(r[2])>>)
    /\ w_pc' = "responded"
    /\ UNCHANGED <<w_model, w_out, w_order>>

\* home_handler up to join_all(fetch_futures).await
HomeRequest ==
    /\ w_pc = "idle"
    /\ w_pc' = "home"
    /\ UNCHANGED <<w_model, w_fetch, w_out, w_order, w_resp>>

\* one future of fetch_futures runs to completion
HomeFutureDone(model) ==
    /\ w_pc = "home"
    /\ w_out[model] = None
    /\ \E fetched \in WebFetchResults(model) :
        /\ w_fetch' = [w_fetch EXCEPT ![model] = Some(fetched)]
        /\ w_out' = [w_out EXCEPT
                        ![model] = Some(FetchFuture(model,
                                                    fetch_and_parse(fetched)))]
    /\ w_order' = Append(w_order, model)
    /\ UNCHANGED <<w_pc, w_model, w_resp>>

\* HomeJoined answering as soon as one future has completed, with the
\* listings of the futures completed so far
HomeJoinedEarly ==
    /\ w_pc = "home"
    /\ \E m \in ModelSet : w_out[m] # None
    /\ LET Completed(m) == w_out[m] # None
           done == SelectSeq(Models, Completed)
           partial == [i \in 1..Len(done) |-> Unwrap(w_out[done[i]])]
       IN  w_resp' = Some(<<200, Render(CollectListings(partial))>>)
    /\ w_pc' = "responded"
    /\ UNCHANGED <<w_model, w_fetch, w_out, w_order>>

\* home_handler from the completion of join_all to its return
HomeJoined ==
    /\ w_pc = "home"
    /\ \A m \in ModelSet : w_out[m] # None
    /\ LET all_listings == CollectListings(JoinAll)
           rendered == Render(all_listings)
       IN  w_resp' = IF IsOk(rendered) THEN Some(<<200, rendered>>)
                     ELSE Some(<<500, rendered>>)
    /\ w_pc' = "responded"
    /\ UNCHANGED <<w_model, w_fetch, w_out, w_order>>

\* the response is sent; the server waits for the next request
Responded ==
    /\ w_pc = "responded"
    /\ w_pc' = "idle"
    /\ w_model' = None
    /\ w_fetch' = NoneFetched
    /\ w_out' = NoneFetched
    /\ w_order' = <<>>
    /\ w_resp' = None

(***************************************************************************)
(* The cheapest-each mode of the command-line tool (cli.rs declares its    *)
(* flag, Args::cheapest_each; the code that runs it is not among the       *)
(* sources, and is modelled from sections 4.4, 4.5 and 5 of the            *)
(* specification): one task per tracked variant fetches and extracts, a    *)
(* join waits for all of them, and each variant's listings are reduced to  *)
(* the eligible one of minimum numeric price.                              *)
(***************************************************************************)
PreorderLower == to_lowercase(Preorder)

\* IsPreorder without the lower-casing of the status
IsPreorderCaseSensitive(item) == item.status = PreorderLower

\* the status is, case-insensitively, "preorder"
IsPreorder(item) == to_lowercase(item.status) = PreorderLower

\* the listings of one variant that take part in the reduction: those the
\* filter policy keeps, without the preorders and without the listings that
\* lack a numeric price
CheapestEligible(v, all) ==
    LET Keep(item) ==
            /\ all \/ IsShown(item)
            /\ ~IsPreorder(item)
            /\ IsSome(item.price_numeric)
    IN  SelectSeq(v, Keep)

\* the first listing of v, not empty, of minimum numeric price
MinByPrice(v) ==
    v[SetMin({i \in 1..Len(v) :
                 \A j \in 1..Len(v) :
                     F64Cmp(Unwrap(v[i].price_numeric),
                            Unwrap(v[j].price_numeric)) # Greater})]

\* CheapestPick keeping every eligible listing of the variant
CheapestPickAll(r, all) ==
    IF IsErr(r) THEN <<>> ELSE CheapestEligible(r[2], all)

\* what one variant contributes, given the result r of its task: nothing
\* when the task failed or no listing is eligible, else its cheapest listing
CheapestPick(r, all) ==
    IF IsErr(r) \/ CheapestEligible(r[2], all) = <<>> THEN <<>>
    ELSE <<MinByPrice(CheapestEligible(r[2], all))>>

RECURSIVE CheapestPicks(_, _)
CheapestPicks(ms, all) ==
    IF ms = <<>> THEN <<>>
    ELSE CheapestPick(Unwrap(ce_out[Head(ms)]), all)
             \o CheapestPicks(Tail(ms), all)

\* what the site can serve at the URL of `model`
CheapestPages(model) ==
    {NoTable,
     Table(<<WebRow(model, <<"P">>, Preorder, Price50),
             WebRow(model, <<"A">>, InStock, Price100),
             WebRow(model, <<"C">>, InStock, Dash)>>),
     Table(<<WebRow(model, <<"B">>, OutOfStock, Price50),
             WebEbayRow(model),
             WebRow(model, <<"A">>, InStock, Price1234),
             WebRow(model, <<"D">>, InStock, Price100)>>),
     Table(<<WebRow(model, <<"P">>, Preorder, Price50)>>)}

CheapestFetchResults(model) ==
    {Err(TransportError)} \cup {Ok(d) : d \in CheapestPages(model)}

ceVars == <<ce_pc, ce_all, ce_fetch, ce_out, ce_result>>

\* the task of one variant runs to completion
CheapestTaskDone(model) ==
    /\ ce_pc = "tasks"
    /\ ce_out[model] = None
    /\ \E fetched \in CheapestFetchResults(model) :
        /\ ce_fetch' = [ce_fetch EXCEPT ![model] = Some(fetched)]
        /\ ce_out' = [ce_out EXCEPT ![model] = Some(fetch_and_parse(fetched))]
    /\ UNCHANGED <<ce_pc, ce_all, ce_result>>

\* every task has finished: the per-variant picks are concatenated in
\* enumeration order and the call succeeds
CheapestJoined ==
    /\ ce_pc = "tasks"
    /\ \A m \in ModelSet : ce_out[m] # None
    /\ ce_result' = Some(Ok(CheapestPicks(Models, ce_all)))
    /\ ce_pc' = "done"
    /\ UNCHANGED <<ce_all, ce_fetch, ce_out>>

(***************************************************************************)
(* Harness for parse_price: every string over PriceAlphabet of length at   *)
(* most MaxPriceLen is handed to it once.                                  *)
(***************************************************************************)
MaxPriceLen == 7

PriceAlphabet == {"1", "5", ",", ".", "$"}

CallParsePrice ==
    /\ price_out = <<"pending">>
    /\ price_out' = <<"ret", parse_price(price_str)>>
    /\ UNCHANGED price_str

priceVars == <<price_str, price_out>>

(***************************************************************************)
(* Harness for the two parse_listings: every document of at most           *)
(* MaxHarnessRows sample rows is handed to each of them once.              *)
(***************************************************************************)
MaxHarnessRows == 2

CallParseListings ==
    /\ x_scraper = None
    /\ x_scraper' = Some(parse_listings(x_html))
    /\ UNCHANGED <<x_html, x_main>>

CallMainParseListings ==
    /\ x_main = None
    /\ x_main' = Some(main_parse_listings(x_html))
    /\ UNCHANGED <<x_html, x_scraper>>

extractVars == <<x_html, x_scraper, x_main>>

vars == <<priceVars, extractVars, cliVars, webVars, ceVars>>

CliOff ==
    /\ args = [all |-> FALSE, sort_by |-> "Price", desc |-> FALSE,
               limit |-> None]
    /\ pc = "off" /\ html = None /\ listings = <<>> /\ ret = None
    /\ printed = None

WebOff ==
    /\ w_pc = "off" /\ w_model = None /\ w_fetch = NoneFetched
    /\ w_out = NoneFetched /\ w_order = <<>> /\ w_resp = None

CeOff ==
    /\ ce_pc = "off" /\ ce_all = FALSE /\ ce_fetch = NoneFetched
    /\ ce_out = NoneFetched /\ ce_result = None

\* the program starts as the command-line tool, in its single-variant or its
\* cheapest-each mode, or as the server
Init ==
    /\ price_str = <<>> /\ price_out = <<"idle">>
    /\ x_html = NoTable /\ x_scraper = None /\ x_main = None
    /\ html = None /\ listings = <<>> /\ ret = None /\ printed = None
    /\ w_model = None /\ w_fetch = NoneFetched /\ w_out = NoneFetched
    /\ w_order = <<>> /\ w_resp = None
    /\ ce_fetch = NoneFetched /\ ce_out = NoneFetched /\ ce_result = None
    /\ \/ /\ args \in ArgsSet /\ pc = "fetch" /\ w_pc = "off"
          /\ ce_pc = "off" /\ ce_all = FALSE
       \/ /\ args = [all |-> FALSE, sort_by |-> "Price", desc |-> FALSE,
                     limit |-> None]
          /\ pc = "off"
          /\ \/ w_pc = "idle" /\ ce_pc = "off" /\ ce_all = FALSE
             \/ w_pc = "off" /\ ce_pc = "tasks" /\ ce_all \in BOOLEAN

Next ==
    \/ MainFetch /\ UNCHANGED <<priceVars, extractVars, webVars, ceVars>>
    \/ MainParse /\ UNCHANGED <<priceVars, extractVars, webVars, ceVars>>
    \/ MainFilter /\ UNCHANGED <<priceVars, extractVars, webVars, ceVars>>
    \/ MainSort /\ UNCHANGED <<priceVars, extractVars, webVars, ceVars>>
    \/ MainLimit /\ UNCHANGED <<priceVars, extractVars, webVars, ceVars>>
    \/ MainPrint /\ UNCHANGED <<priceVars, extractVars, webVars, ceVars>>
    \/ ModelRequest /\ UNCHANGED <<priceVars, extractVars, cliVars, ceVars>>
    \/ ModelFetched /\ UNCHANGED <<priceVars, extractVars, cliVars, ceVars>>
    \/ HomeRequest /\ UNCHANGED <<priceVars, extractVars, cliVars, ceVars>>
    \/ \E model \in ModelSet :
          HomeFutureDone(model)
              /\ UNCHANGED <<priceVars, extractVars, cliVars, ceVars>>
    \/ HomeJoined /\ UNCHANGED <<priceVars, extractVars, cliVars, ceVars>>
    \/ Responded /\ UNCHANGED <<priceVars, extractVars, cliVars, ceVars>>
    \/ \E model \in ModelSet :
          CheapestTaskDone(model)
              /\ UNCHANGED <<priceVars, extractVars, cliVars, webVars>>
    \/ CheapestJoined /\ UNCHANGED <<priceVars, extractVars, cliVars, webVars>>

Spec == Init /\ [][Next]_vars

InitPrice ==
    /\ price_str \in SeqsUpTo(PriceAlphabet, MaxPriceLen)
    /\ price_out = <<"pending">>
    /\ x_html = NoTable /\ x_scraper = None /\ x_main = None
    /\ CliOff /\ WebOff /\ CeOff

NextPrice ==
    CallParsePrice /\ UNCHANGED <<extractVars, cliVars, webVars, ceVars>>

SpecPrice == InitPrice /\ [][NextPrice]_vars

InitExtract ==
    /\ x_html \in Documents(RowSamples, MaxHarnessRows)
    /\ x_scraper = None
    /\ x_main = None
    /\ price_str = <<>> /\ price_out = <<"idle">>
    /\ CliOff /\ WebOff /\ CeOff

NextExtract ==
    \/ CallParseListings /\ UNCHANGED <<priceVars, cliVars, webVars, ceVars>>
    \/ CallMainParseListings /\ UNCHANGED <<priceVars, cliVars, webVars, ceVars>>

SpecExtract == InitExtract /\ [][NextExtract]_vars

(***************************************************************************)
(* The server alone, with the fairness its runtime gives: once join_all    *)
(* has resolved, home_handler is polled again and runs to its return (the  *)
(* rest of the handler awaits nothing).  Nothing is assumed of the         *)
(* fetches, which may never complete.                                      *)
(***************************************************************************)
InitServer ==
    /\ price_str = <<>> /\ price_out = <<"idle">>
    /\ x_html = NoTable /\ x_scraper = None /\ x_main = None
    /\ CliOff /\ CeOff
    /\ w_pc = "idle" /\ w_model = None /\ w_fetch = NoneFetched
    /\ w_out = NoneFetched /\ w_order = <<>> /\ w_resp = None

HomeJoinedStep ==
    HomeJoined /\ UNCHANGED <<priceVars, extractVars, cliVars, ceVars>>

NextServer ==
    \/ ModelRequest /\ UNCHANGED <<priceVars, extractVars, cliVars, ceVars>>
    \/ ModelFetched /\ UNCHANGED <<priceVars, extractVars, cliVars, ceVars>>
    \/ HomeRequest /\ UNCHANGED <<priceVars, extractVars, cliVars, ceVars>>
    \/ \E model \in ModelSet :
          HomeFutureDone(model)
              /\ UNCHANGED <<priceVars, extractVars, cliVars, ceVars>>
    \/ HomeJoinedStep
    \/ Responded /\ UNCHANGED <<priceVars, extractVars, cliVars, ceVars>>

SpecServer == InitServer /\ [][NextServer]_vars /\ WF_vars(HomeJoinedStep)

(***************************************************************************)
(* Claims about parse_price (SpecPrice).                                   *)
(***************************************************************************)
\* the starts p of the substrings of s of the form: a digit, then a run of
\* digits or commas, then '.', then two digits
PatternStarts(s) ==
    {p \in 1..Len(s) :
        /\ IsAsciiDigit(s[p])
        /\ \E d \in (p + 1)..(Len(s) - 2) :
            /\ \A i \in p..(d - 1) : IsAsciiDigit(s[i]) \/ s[i] = ","
            /\ s[d] = "."
            /\ IsAsciiDigit(s[d + 1])
            /\ IsAsciiDigit(s[d + 2])}

\* the first such substring, from its first digit to its second decimal
FirstPattern(s) ==
    LET p == SetMin(PatternStarts(s))
        d == SetMin({i \in p..Len(s) : s[i] = "."})
    IN  SubSeq(s, p, d + 2)

\* a substring of that form with its commas removed, read as a decimal number
DecimalReading(sub) == Normalise(DigitsValue(SelectSeq(sub, IsAsciiDigit)), 2)

\* C1: for every price string that contains a substring of the form digit,
\* digits or commas, '.', two digits, parse_price returns the value of the
\* first such substring with its commas removed, read as a decimal number.
C1_FirstPatternValue ==
    (price_out[1] = "ret" /\ PatternStarts(price_str) # {})
        => price_out[2] = Some(DecimalReading(FirstPattern(price_str)))

\* C2: for every price string without a substring of that form, parse_price
\* returns None.
C2_NoPatternNone ==
    (price_out[1] = "ret" /\ PatternStarts(price_str) = {})
        => price_out[2] = None

(***************************************************************************)
(* Claims about the filter step of main (Spec).                            *)
(***************************************************************************)
EqIgnoreCase(a, b) ==
    /\ Len(a) = Len(b)
    /\ \A i \in 1..Len(a) : LowerChar(a[i]) = LowerChar(b[i])

Unavailable(item) ==
    \/ EqIgnoreCase(item.status, OutOfStock)
    \/ EqIgnoreCase(item.status, NotTracking)

Available(item) == ~Unavailable(item)

\* what parse_listings returned to main, once main is past it
Parsed == main_parse_listings(Unwrap(html)[2])[2]

\* C3: with show-all disabled the filter step leaves exactly the listings
\* whose status is not, case-insensitively, "out of stock" or "not tracking",
\* in their input order.
C3_FilterExact ==
    (pc = "sort" /\ ~args.all) => listings = SelectSeq(Parsed, Available)

\* the filter dropped an "Out of Stock" and a "Not Tracking" listing, neither
\* spelled in lower case, and kept the third
C3_Witness ==
    /\ pc = "sort" /\ ~args.all
    /\ Len(listings) = 1
    /\ \E i \in 1..Len(Parsed) : Parsed[i].status = OutOfStock
    /\ \E i \in 1..Len(Parsed) : Parsed[i].status = NotTracking

(***************************************************************************)
(* Claims about the two parse_listings (SpecExtract).                      *)
(***************************************************************************)
\* the results the harness holds
HarnessResults == {Unwrap(o) : o \in {o \in {x_scraper, x_main} : IsSome(o)}}

\* the listings of every successful result the harness holds
Extracted == {r[2] : r \in {r \in HarnessResults : IsOk(r)}}

\* a row of four cells or more whose first cell has no link, or whose link
\* has no text but whitespace
Nameless(row) ==
    /\ Len(row) >= 4
    /\ \/ FirstLink(row[1]) = None
       \/ Trim(Unwrap(FirstLink(row[1])).text) = <<>>

\* C4: every listing extraction returns has a name that is neither empty nor
\* "N/A"; a row of four cells or more without a link in its first cell, or
\* with a blank link text, yields no listing.
C4_NamesUsable ==
    \A v \in Extracted :
        /\ \A i \in 1..Len(v) : v[i].name # <<>> /\ v[i].name # NA
        /\ Len(v) <= Cardinality({i \in 1..Len(x_html.rows) :
                                     ~Nameless(x_html.rows[i])})

\* both implementations returned one listing for a document of a nameless
\* row and a standard row
C4_Witness ==
    /\ x_scraper # None /\ x_main # None
    /\ Len(x_html.rows) = 2
    /\ \E i \in 1..2 : Nameless(x_html.rows[i])
    /\ \A v \in Extracted : Len(v) = 1
    /\ Cardinality(Extracted) >= 1

\* C6: without the anchor table extraction fails, returning no sequence of
\* listings at all; with it extraction succeeds, also when no row yields a
\* listing.
C6_TableOrError ==
    \A o \in {x_scraper, x_main} :
        IsSome(o) =>
            /\ ~x_html.table => Unwrap(o) = Err(StructureError)
            /\ x_html.table => IsOk(Unwrap(o))

\* both implementations failed on the document without the table
C6_Witness ==
    /\ ~x_html.table
    /\ x_scraper = Some(Err(StructureError))
    /\ x_main = Some(Err(StructureError))

\* the first link of the first cell carries the marketplace marker
FirstLinkHasMarker(row) ==
    /\ Len(row) >= 1
    /\ IsSome(FirstLink(row[1]))
    /\ Contains(Unwrap(FirstLink(row[1])).text, Ebay)

\* some link of the first cell carries the marketplace marker
SomeLinkHasMarker(row) ==
    /\ Len(row) >= 1
    /\ \E i \in 1..Len(row[1].nodes) :
           row[1].nodes[i].a /\ Contains(row[1].nodes[i].text, Ebay)

\* the marketplace listing of a two-cell row: its status is the text of the
\* second cell and its link the target of the given anchor ("" without one)
MarketplaceListing(row, anchor) ==
    GpuListing(Trim(anchor.text), Trim(CellText(row[2])), Dash, None, Dash,
               AttrOrEmpty(anchor.href))

\* the first link of the first cell that carries the marker
MarkedLink(row) ==
    row[1].nodes[SetMin({i \in 1..Len(row[1].nodes) :
                            row[1].nodes[i].a
                            /\ Contains(row[1].nodes[i].text, Ebay)})]

\* the document's rows all have fewer than four cells
OnlyShortRows == \A i \in 1..Len(x_html.rows) : Len(x_html.rows[i]) < 4

RECURSIVE MarketplaceByAnyLink(_)
MarketplaceByAnyLink(rows) ==
    IF rows = <<>> THEN <<>>
    ELSE (IF Len(Head(rows)) = 2 /\ SomeLinkHasMarker(Head(rows))
          THEN <<MarketplaceListing(Head(rows), MarkedLink(Head(rows)))>>
          ELSE <<>>) \o MarketplaceByAnyLink(Tail(rows))

RECURSIVE MarketplaceByFirstLink(_)
MarketplaceByFirstLink(rows) ==
    IF rows = <<>> THEN <<>>
    ELSE (IF Len(Head(rows)) = 2 /\ FirstLinkHasMarker(Head(rows))
          THEN <<MarketplaceListing(Head(rows),
                                    Unwrap(FirstLink(Head(rows)[1])))>>
          ELSE <<>>) \o MarketplaceByFirstLink(Tail(rows))

\* C7 as stated: a two-cell row whose first cell contains a link whose text
\* includes the marker yields exactly one listing, of the marketplace shape;
\* a row of fewer than two cells, or a two-cell row without such a link,
\* yields none.
C7_AnyLinkMarketplace ==
    (x_html.table /\ OnlyShortRows)
        => \A v \in Extracted : v = MarketplaceByAnyLink(x_html.rows)

\* C7 amended: a two-cell row whose first cell's first link has a text that
\* includes the marker yields exactly one listing, with price "-", no numeric
\* price, last_available "-", the trimmed text of the second cell as status
\* and the target of that link as link; a row of fewer than two cells, or a
\* two-cell row whose first cell has no link or a first link without the
\* marker, yields none.
C7_FirstLinkMarketplace ==
    (x_html.table /\ OnlyShortRows)
        => \A v \in Extracted : v = MarketplaceByFirstLink(x_html.rows)

\* a marketplace row followed by a two-cell row whose marker is in the second
\* link of its first cell: one listing from scraper::parse_listings
C7_Witness ==
    /\ x_html.table /\ Len(x_html.rows) = 2
    /\ FirstLinkHasMarker(x_html.rows[1])
    /\ SomeLinkHasMarker(x_html.rows[2])
    /\ ~FirstLinkHasMarker(x_html.rows[2])
    /\ IsSome(x_scraper) /\ Len(Unwrap(x_scraper)[2]) = 1

(***************************************************************************)
(* Claims about main and the handlers of the server (Spec).                *)
(***************************************************************************)
PriceConsistent(v) ==
    \A i \in 1..Len(v) : v[i].price_numeric = parse_price(v[i].price)

\* C5: every listing extraction produced, and every listing present after
\* filtering, sorting and limiting, has price_numeric equal to parse_price
\* of its own raw price text.
C5_PriceNumericDerived ==
    /\ PriceConsistent(listings)
    /\ IsSome(printed) => PriceConsistent(Unwrap(printed))
    /\ \A m \in ModelSet :
          IsSome(w_out[m]) => PriceConsistent(Unwrap(w_out[m])[2][2])
    /\ (IsSome(w_resp) /\ Unwrap(w_resp)[1] = 200)
          => PriceConsistent(Unwrap(w_resp)[2][2])

\* main printed fewer listings than it parsed, one with and one without a
\* numeric price
C5_Witness ==
    /\ pc = "exit" /\ IsSome(printed)
    /\ Len(Unwrap(printed)) < Len(Parsed)
    /\ \E i \in 1..Len(Unwrap(printed)) : IsSome(Unwrap(printed)[i].price_numeric)
    /\ \E i \in 1..Len(Unwrap(printed)) : Unwrap(printed)[i].price_numeric = None

\* the error of main's fetch or extraction, once that step has been made
MainFailure ==
    IF html = None THEN None
    ELSE IF IsErr(Unwrap(html)) THEN html
    ELSE IF pc # "parse" /\ IsErr(main_parse_listings(Unwrap(html)[2]))
    THEN Some(main_parse_listings(Unwrap(html)[2]))
    ELSE None

\* the error of gpu_model_handler's fetch_and_parse, once it has returned
ModelFailure ==
    IF w_model = None \/ w_fetch[Unwrap(w_model)] = None THEN None
    ELSE IF IsErr(fetch_and_parse(Unwrap(w_fetch[Unwrap(w_model)])))
    THEN Some(fetch_and_parse(Unwrap(w_fetch[Unwrap(w_model)])))
    ELSE None

\* C8: in single-variant mode a failed fetch or a failed extraction ends the
\* call with that error: main returns it having filtered, sorted, limited and
\* printed nothing, and gpu_model_handler answers with it and no listings.
C8_FailurePropagates ==
    /\ IsSome(MainFailure) =>
          /\ pc = "exit"
          /\ ret = MainFailure
          /\ listings = <<>>
          /\ printed = None
    /\ IsSome(ModelFailure) =>
          /\ w_pc = "responded"
          /\ w_resp = Some(<<500, Unwrap(ModelFailure)>>)

\* main has returned the error of an extraction that found no table
C8_Witness ==
    /\ pc = "exit"
    /\ IsSome(html) /\ IsOk(Unwrap(html))
    /\ ret = Some(Err(StructureError))

\* home_handler has answered (every future of the request has completed)
HomeResponded ==
    /\ w_pc = "responded"
    /\ \A m \in ModelSet : IsSome(w_out[m])

\* what the page fetched for model m contributes when nothing else fails:
\* its listings, and nothing when its own fetch or extraction failed
Contribution(m) ==
    LET fetched == Unwrap(w_fetch[m])
    IN  IF IsOk(fetched) /\ fetched[2].table THEN RowLoop(fetched[2].rows)
        ELSE <<>>

RECURSIVE Contributions(_)
Contributions(ms) ==
    IF ms = <<>> THEN <<>>
    ELSE Contribution(Head(ms)) \o Contributions(Tail(ms))

FailedModels ==
    {m \in ModelSet : IsSome(w_fetch[m])
                      /\ IsErr(fetch_and_parse(Unwrap(w_fetch[m])))}

\* C9: in cross-variant mode the call succeeds whichever variants fail, each
\* failing variant contributes nothing, and every other variant contributes
\* what it would contribute if no variant had failed.
C9_FailuresIsolated ==
    HomeResponded => w_resp = Some(<<200, Ok(Contributions(Models))>>)

\* the first variant's fetch failed, another variant's page had no table, and
\* the answer still carries the listings of the last variant
C9_Witness ==
    /\ HomeResponded
    /\ Unwrap(w_fetch[Models[1]]) = Err(TransportError)
    /\ Err(StructureError) \in
          {fetch_and_parse(Unwrap(w_fetch[m])) : m \in FailedModels}
    /\ Contribution(Models[Len(Models)]) # <<>>
    /\ Unwrap(w_resp)[1] = 200

\* the index, in enumeration order, of the variant a listing was scraped for
\* (the links of a variant's page are under the variant's URL)
VariantIndex(item) ==
    CHOOSE i \in 1..Len(Models) :
        /\ Len(item.link) >= Len(ModelUrlPart(Models[i]))
        /\ SubSeq(item.link, 1, Len(ModelUrlPart(Models[i])))
               = ModelUrlPart(Models[i])

\* C10: the entries of the cross-variant result are grouped in variant
\* enumeration order, whatever the order in which the tasks completed.
C10_EnumerationOrder ==
    HomeResponded =>
        LET v == Unwrap(w_resp)[2][2]
        IN  \A i, j \in 1..Len(v) :
                i < j => VariantIndex(v[i]) <= VariantIndex(v[j])

\* the futures completed in the reverse of the enumeration order and every
\* variant contributed
C10_Witness ==
    /\ HomeResponded
    /\ w_order = [i \in 1..Len(Models) |-> Models[Len(Models) + 1 - i]]
    /\ \A m \in ModelSet : Contribution(m) # <<>>
    /\ Len(Unwrap(w_resp)[2][2]) >= Len(Models)

(***************************************************************************)
(* Claims about the cheapest-each mode (Spec).                             *)
(***************************************************************************)
\* the final sequence of the cheapest-each call, once it has returned
CheapestResult == Unwrap(ce_result)[2]

\* the listings the task of variant m extracted (none when it failed)
TaskListings(m) ==
    IF IsOk(Unwrap(ce_out[m])) THEN Unwrap(ce_out[m])[2] ELSE <<>>

\* the entries of the final sequence that were scraped for variant m
EntriesOf(m) ==
    {i \in 1..Len(CheapestResult) :
        Models[VariantIndex(CheapestResult[i])] = m}

\* C11: the cross-variant result never contains a listing whose status is,
\* case-insensitively, "preorder", whether or not show-all is set and even
\* when a preorder is the cheapest listing of its variant.
C11_NoPreorderPicked ==
    ce_pc = "done" =>
        \A i \in 1..Len(CheapestResult) :
            ~EqIgnoreCase(CheapestResult[i].status, PreorderLower)

\* with show-all set, a variant whose cheapest listing is a preorder
\* contributed another, dearer listing
C11_Witness ==
    /\ ce_pc = "done" /\ ce_all
    /\ \E m \in ModelSet :
          /\ EntriesOf(m) # {}
          /\ \E k \in 1..Len(TaskListings(m)) :
                /\ TaskListings(m)[k].status = Preorder
                /\ \A i \in EntriesOf(m) :
                      F64Cmp(Unwrap(TaskListings(m)[k].price_numeric),
                             Unwrap(CheapestResult[i].price_numeric)) = Less

\* the variants whose fetch failed
FailedFetches ==
    {m \in ModelSet : IsSome(ce_fetch[m]) /\ IsErr(Unwrap(ce_fetch[m]))}

\* C12: the cross-variant result holds at most one entry per tracked
\* variant; a variant whose fetch failed has none, so that with exactly one
\* failed fetch among the N variants the result has at most N - 1 entries,
\* and the call still succeeds.
C12_OnePerVariant ==
    ce_pc = "done" =>
        /\ IsOk(Unwrap(ce_result))
        /\ \A m \in ModelSet : Cardinality(EntriesOf(m)) <= 1
        /\ \A m \in FailedFetches : EntriesOf(m) = {}
        /\ Cardinality(FailedFetches) = 1
              => Len(CheapestResult) <= Len(Models) - 1

\* exactly one fetch failed, every other variant had several eligible
\* listings, and the result has N - 1 entries
C12_Witness ==
    /\ ce_pc = "done"
    /\ Cardinality(FailedFetches) = 1
    /\ \A m \in ModelSet \ FailedFetches :
          Len(CheapestEligible(TaskListings(m), ce_all)) >= 2
    /\ Len(CheapestResult) = Len(Models) - 1

(***************************************************************************)
(* Claims about the sort step of main (Spec).                              *)
(***************************************************************************)
\* the listings main hands to its sort step
BeforeSort == IF args.all THEN Parsed ELSE SelectSeq(Parsed, Available)

\* the listings of v whose key compares equal to the key of x
TieClass(v, x, sort_by, desc) ==
    LET Ties(y) == Compare(x, y, sort_by, desc) = Equal
    IN  SelectSeq(v, Ties)

\* out is v in the order of the key, the listings of equal keys in the order
\* they have in v
StablySorted(out, v, sort_by, desc) ==
    /\ Len(out) = Len(v)
    /\ \A i, j \in 1..Len(out) :
          i < j => Compare(out[i], out[j], sort_by, desc) # Greater
    /\ \A k \in 1..Len(v) :
          TieClass(out, v[k], sort_by, desc) = TieClass(v, v[k], sort_by, desc)

\* C13: the sort step is stable for every key and both directions: its
\* output is its input in the order of the key, and listings whose keys
\* compare equal keep their relative input order; so sorting a name-sorted
\* sequence by price and then by name again leaves the listings of equal
\* price in their original relative order.
C13_SortStable ==
    pc = "limit" =>
        /\ StablySorted(listings, BeforeSort, args.sort_by, args.desc)
        /\ args.sort_by = "Name" =>
              \A d \in BOOLEAN :
                  LET by_price == SortBy(listings, "Price", d)
                      again == SortBy(by_price, "Name", args.desc)
                  IN  \A k \in 1..Len(listings) :
                          TieClass(again, listings[k], "Price", d)
                              = TieClass(listings, listings[k], "Price", d)

\* the sort step moved a listing and left two different listings of equal
\* key next to each other
C13_Witness ==
    /\ pc = "limit"
    /\ listings # BeforeSort
    /\ \E i \in 1..(Len(listings) - 1) :
          /\ listings[i] # listings[i + 1]
          /\ Compare(listings[i], listings[i + 1], args.sort_by, args.desc)
                 = Equal

\* in v every listing that lacks a numeric price is after every listing that
\* has one
UnpricedLast(v) ==
    \A i, j \in 1..Len(v) :
        (IsSome(v[i].price_numeric) /\ v[j].price_numeric = None) => i < j

\* in v every listing that lacks a numeric price is before every listing
\* that has one
UnpricedFirst(v) ==
    \A i, j \in 1..Len(v) :
        (IsSome(v[i].price_numeric) /\ v[j].price_numeric = None) => j < i

\* C14 as stated: sorted by price, the listings that lack a numeric price
\* are last in the output when ascending is requested and last when
\* descending is requested.
C14_UnpricedLastBothWays ==
    (pc = "limit" /\ args.sort_by = "Price") => UnpricedLast(listings)

\* C14 amended: a listing that has a numeric price compares less than one
\* that lacks it, and the direction flag reverses that comparison like any
\* other: sorted by price, the listings that lack a numeric price are last
\* when ascending is requested and first when descending is requested.
C14_UnpricedLastThenReversed ==
    (pc = "limit" /\ args.sort_by = "Price") =>
        IF args.desc THEN UnpricedFirst(listings) ELSE UnpricedLast(listings)

\* a descending sort by price moved a listing without a numeric price ahead
\* of a listing with one
C14_Witness ==
    /\ pc = "limit" /\ args.sort_by = "Price" /\ args.desc
    /\ listings # BeforeSort
    /\ Len(listings) >= 2
    /\ listings[1].price_numeric = None
    /\ IsSome(listings[Len(listings)].price_numeric)

\* the names of the listings of v, in order
Names(v) == [i \in 1..Len(v) |-> v[i].name]

\* main was run with default filtering, sorted by price ascending, on the
\* rows A (In Stock, $100.00), B (Out of Stock, $50.00), C (In Stock, -),
\* and has printed its listings
ExampleRun ==
    /\ pc = "exit" /\ IsSome(printed)
    /\ html = Some(Ok(Table(<<RowA, RowB, RowC>>)))
    /\ ~args.all /\ args.sort_by = "Price" /\ ~args.desc
    /\ args.limit = None

\* C15 as stated: on the rows A, B, C the single-variant pipeline with
\* default filtering and sort by price ascending prints [C, A].
C15_ExampleCThenA ==
    ExampleRun => Names(Unwrap(printed)) = << <<"C">>, <<"A">> >>

\* C15 amended: on the rows A, B, C the single-variant pipeline with default
\* filtering and sort by price ascending prints [A, C]: B is excluded, and
\* C, which lacks a numeric price, sorts after A.
C15_ExampleAThenC ==
    ExampleRun => Names(Unwrap(printed)) = << <<"A">>, <<"C">> >>

\* the example has been run: two of the three extracted listings were
\* printed, among them the one without a numeric price
C15_Witness ==
    /\ ExampleRun
    /\ Len(Parsed) = 3
    /\ Len(Unwrap(printed)) = 2
    /\ \E i \in 1..2 : Unwrap(printed)[i].price_numeric = None

(***************************************************************************)
(* Further claims about the two parse_listings (SpecExtract).              *)
(***************************************************************************)
\* a row of four cells or more whose first cell's first link gives a name
\* that is neither empty nor "N/A"
UsableStandard(row) ==
    /\ Len(row) >= 4
    /\ ~Nameless(row)
    /\ Trim(Unwrap(FirstLink(row[1])).text) # NA

\* the title attribute of the cell when it is present and not empty, else
\* the visible text of the cell
TitleElseText(cell) ==
    IF IsSome(cell.title) /\ Trim(Unwrap(cell.title)) # <<>>
    THEN Unwrap(cell.title)
    ELSE CellText(cell)

\* C16: in both extraction implementations the last_available of a standard
\* row is the title attribute of its fourth cell when that attribute is
\* present and not empty, and the visible text of the cell otherwise
\* (attribute absent, or present but empty).  Values are compared without
\* their surrounding whitespace.
C16_TitleElseText ==
    (x_html.table /\ \A i \in 1..Len(x_html.rows) :
                        UsableStandard(x_html.rows[i]))
        => \A v \in Extracted :
               /\ Len(v) = Len(x_html.rows)
               /\ \A i \in 1..Len(v) :
                     Trim(v[i].last_available)
                         = Trim(TitleElseText(x_html.rows[i][4]))

\* a marketplace row: two cells, the first link of the first carries the
\* marker
MarketplaceRow(row) == Len(row) = 2 /\ FirstLinkHasMarker(row)

\* the row classifies as one of the two recognized shapes
Recognized(row) == MarketplaceRow(row) \/ UsableStandard(row)

\* the listing v_k is the one of the recognized row: name and link from the
\* first link of its first cell, status from its second cell (the text of
\* its first link when it has one), price "-" or the text of its third cell
ListingOfRow(item, row) ==
    LET anchor == Unwrap(FirstLink(row[1]))
        status_link == FirstLink(row[2])
    IN  /\ item.name = Trim(anchor.text)
        /\ item.link = AttrOrEmpty(anchor.href)
        /\ item.status = Trim(IF IsSome(status_link) /\ ~MarketplaceRow(row)
                              THEN Unwrap(status_link).text
                              ELSE CellText(row[2]))
        /\ item.price = IF MarketplaceRow(row) THEN Dash
                        ELSE Trim(CellText(row[3]))

\* C18: extraction returns one listing for each table row that classifies
\* as a marketplace row or as a standard row with a usable name, in document
\* order; the other rows are skipped without an error and change nothing of
\* the listings of the rows before or after them.
C18_RecognizedRowsInOrder ==
    x_html.table =>
        \A r \in HarnessResults :
            /\ IsOk(r)
            /\ LET recognized == SelectSeq(x_html.rows, Recognized)
               IN  /\ Len(r[2]) = Len(recognized)
                   /\ \A k \in 1..Len(recognized) :
                         ListingOfRow(r[2][k], recognized[k])

\* both implementations returned the listing of the second row of a document
\* whose first row has neither shape
C18_Witness ==
    /\ x_html.table /\ Len(x_html.rows) = 2
    /\ ~Recognized(x_html.rows[1]) /\ Recognized(x_html.rows[2])
    /\ IsSome(x_scraper) /\ IsSome(x_main)
    /\ \A v \in Extracted : Len(v) = 1

(***************************************************************************)
(* Claim about the join of home_handler (SpecServer).                      *)
(***************************************************************************)
\* every per-variant task of the home request has finished
AllTasksFinished == \A m \in ModelSet : IsSome(w_out[m])

\* C17: cross-variant mode produces its result only after every per-variant
\* task has finished, successfully or not: while the tasks run there is no
\* result, the step that produces the result is taken with every task
\* finished, and once all tasks have finished a result is eventually
\* produced.
C17_JoinBarrier ==
    /\ [](w_pc = "home" => w_resp = None)
    /\ [][(w_pc = "home" /\ w_resp' # w_resp) => AllTasksFinished]_vars
    /\ (w_pc = "home" /\ AllTasksFinished)
          ~> (w_pc = "responded" /\ IsSome(w_resp))

\* home_handler has answered after tasks that failed and tasks that
\* succeeded, the last variant's task having finished first
C17_Witness ==
    /\ w_pc = "responded" /\ AllTasksFinished /\ IsSome(w_resp)
    /\ w_order[1] = Models[Len(Models)]
    /\ \E m \in ModelSet : IsErr(fetch_and_parse(Unwrap(w_fetch[m])))
    /\ \E m \in ModelSet : IsOk(fetch_and_parse(Unwrap(w_fetch[m])))

=============================================================================
